---- MODULE Spec2Model ----
(***************************************************************************)
(* A model of SubTrans-Ollama (src/app.py): the SRT codec (parse_srt,      *)
(* write_srt), the translation client (translate_to_persian), the batch    *)
(* driver (translate_subtitles) and the temporary-file handling of main.   *)
(*                                                                         *)
(* Strings are sequences of one-character strings, so that strip, split    *)
(* and join are computed as Python computes them.  List indices are        *)
(* 0-based as in the source; TLA+ sequences are 1-based, hence the "+ 1"   *)
(* wherever a list is read.                                                *)
(*                                                                         *)
(* Three specifications share the module:                                  *)
(*   Spec / FairSpec  one call of translate_subtitles                      *)
(*   MainSpec         the translate-button branch of main                  *)
(*   CodecSpec        parse_srt, the text store of the driver, write_srt   *)
(***************************************************************************)
EXTENDS Integers, Sequences, FiniteSets, TLC

\* ---------------------------------------------------------------- bounds

\* The longest record list handed to translate_subtitles.
MaxN == 4

\* The largest context_size and batch_size tried (the sliders allow more).
MaxCtx == 3

MaxBatch == 3

\* The most lines typed into an uploaded file.
MaxLines == 7

\* The most script runs (button clicks) of one session.
MaxRuns == 3

\* ----------------------------------------------------- program constants

\* context_size: int = 3
DefaultContextSize == 3

\* The least batch_size the slider offers.
MinBatchSize == 1

\* ------------------------------------------------------------ characters

NL == "\n"

CR == "\r"

SP == " "

\* The whitespace str.strip() removes, as far as the alphabet has it.
IsSpace(c) == c \in {NL, CR, SP}

Max(a, b) == IF a >= b THEN a ELSE b

Min(a, b) == IF a <= b THEN a ELSE b

\* Python's range(lo, hi) as a sequence.
Range(lo, hi) == IF hi > lo THEN [k \in 1..(hi - lo) |-> lo + k - 1] ELSE <<>>

\* c repeated n times.
Rep(c, n) == [k \in 1..n |-> c]

RECURSIVE lstrip(_)
lstrip(s) ==
    IF s = <<>> THEN <<>>
    ELSE IF IsSpace(Head(s)) THEN lstrip(Tail(s))
    ELSE s

RECURSIVE rstrip(_)
rstrip(s) ==
    IF s = <<>> THEN <<>>
    ELSE IF IsSpace(s[Len(s)]) THEN rstrip(SubSeq(s, 1, Len(s) - 1))
    ELSE s

\* str.strip()
strip(s) == rstrip(lstrip(s))

\* ----------------------------------------------------- translate_subtitles

VARIABLES
    heap,                  \* the dict objects: object reference -> record
    subtitles,             \* the caller's list: references into heap
    translated_subtitles,  \* the list made by subtitles.copy()
    context_size,
    batch_size,
    pc,                    \* "Idle", "Running", "Cooling", "Done"
    batch_start,
    idx,
    calls,                 \* every call of translate_to_persian, in order
    events,                \* calls, previews, progress reports and pauses, in order
    returned,              \* the list translate_subtitles returns (dereferenced)
    input                  \* history: the records as they were before the run

tvars == <<heap, subtitles, translated_subtitles, context_size, batch_size, pc,
           batch_start, idx, calls, events, returned, input>>

\* The codec pipeline: an uploaded file, parsed, translated, written, re-read.
VARIABLES
    content,    \* the bytes of the uploaded file
    typed,      \* how many lines it has
    cpc,        \* "typing", "stopped", "parsed", "written", "reparsed"
    yielded,    \* history: the (1-based) blocks parse_srt made records of
    file_out,   \* what write_srt wrote
    reparsed    \* parse_srt of the written file

cvars == <<content, typed, cpc, yielded, file_out, reparsed>>

\* The translate-button branch of main and the files on disk.
VARIABLES
    mpc,          \* the position in main
    files,        \* the temporary files that exist
    temp_path,
    output_path,
    names_used,   \* how many NamedTemporaryFile names were handed out
    runs,         \* how many script runs were started
    created,      \* history: the files the current run created
    ended         \* how the last run ended

mvars == <<mpc, files, temp_path, output_path, names_used, runs, created, ended>>

vars == <<tvars, cvars, mvars>>

\* The values the variables of a part keep while another part is checked.
COff ==
    /\ content = <<>>
    /\ typed = 0
    /\ cpc = "off"
    /\ yielded = <<>>
    /\ file_out = <<>>
    /\ reparsed = <<>>

NoPath == [stem |-> 0, suffix |-> ""]

MOff ==
    /\ mpc = "off"
    /\ files = {}
    /\ temp_path = NoPath
    /\ output_path = NoPath
    /\ names_used = 0
    /\ runs = 0
    /\ created = {}
    /\ ended = "none"

\* The text, id and timestamp of input record i (0-based): distinct per index.
SrcText(i) == Rep("a", i + 1)

SrcId(i) == Rep("1", i + 1)

SrcTimestamp(i) == <<"t">> \o Rep("0", i)

\* What the chat service can answer with, besides raising: two lines with
\* whitespace around them, a text with a blank line inside, a text with a
\* carriage return inside, a whitespace-only answer.
Responses ==
    {<<SP, "x", NL, "y", NL>>, <<"x", NL, NL, "y">>, <<"x", CR, "y">>, <<SP>>}

\* The ways chat(model, messages) can end.
Outcomes ==
    {[kind |-> "raise", content |-> <<>>]}
        \cup {[kind |-> "ok", content |-> c] : c \in Responses}

\* The fixed instruction template of the user turns.
Wrap(text) == <<"[">> \o text \o <<"]">>

SystemPrompt == <<"S">>

RECURSIVE ContextTurns(_)
ContextTurns(previous_context) ==
    IF previous_context = <<>> THEN <<>>
    ELSE <<[role |-> "user", content |-> Wrap(Head(previous_context).original)],
           [role |-> "assistant", content |-> Head(previous_context).translated]>>
         \o ContextTurns(Tail(previous_context))

\* A plausible bug: the fallback of the except branch loses the text.
translate_to_persian_no_fallback(text, previous_context, outcome) ==
    [messages |-> <<[role |-> "system", content |-> SystemPrompt]>>
                    \o ContextTurns(previous_context)
                    \o <<[role |-> "user", content |-> Wrap(text)]>>,
     result |-> IF outcome.kind = "raise" THEN <<>> ELSE strip(outcome.content)]

\* translate_to_persian: the messages sent and the string returned.
translate_to_persian(text, previous_context, outcome) ==
    [messages |-> <<[role |-> "system", content |-> SystemPrompt]>>
                    \o ContextTurns(previous_context)
                    \o <<[role |-> "user", content |-> Wrap(text)]>>,
     result |-> IF outcome.kind = "raise" THEN text ELSE strip(outcome.content)]

\* list.copy(): a new list holding the same object references.
copy(list) == list

\* A plausible bug: the seam case is forgotten, every index uses the batch rule.
ContextRange_no_seam(i, bs, cs) == Range(Max(bs, i - cs), i)

\* A plausible bug: the batch rule is not clamped to the start of the batch.
ContextRange_unclamped(i, bs, cs) ==
    IF i = bs /\ bs > 0 THEN Range(Max(0, bs - cs), bs)
    ELSE Range(Max(0, i - cs), i)

\* The indices j whose pairs make up previous_context for index i.
ContextRange(i, bs, cs) ==
    IF i = bs /\ bs > 0 THEN Range(Max(0, bs - cs), bs)
    ELSE Range(Max(bs, i - cs), i)

\* previous_context as the loops over j build it.
BuildContext(window) ==
    [k \in DOMAIN window |->
        [original   |-> heap[subtitles[window[k] + 1]].text,
         translated |-> heap[translated_subtitles[window[k] + 1]].text]]

\* A plausible bug: the record is replaced instead of its text.
StoreTranslation_replaces_record(h, ref, t) ==
    [h EXCEPT ![ref] = [id |-> <<>>, timestamp |-> <<>>, text |-> t]]

\* translated_subtitles[idx]['text'] = translated_text
StoreTranslation(h, ref, t) == [h EXCEPT ![ref].text = t]

\* A plausible bug: the progress report counts from 0.
ProgressDone_off_by_one(i) == i

\* The number of items the progress report gives after item i.
ProgressDone(i) == i + 1

\* A plausible bug: the pause is not skipped after the final batch.
NeedsCooling_always(batch_end, n) == batch_end <= n

\* if batch_end < len(subtitles)
NeedsCooling(batch_end, n) == batch_end < n

\* The records a list refers to, read after the store of this step.
DerefNext(list) == [k \in DOMAIN list |-> heap'[list[k]]]

TInit ==
    /\ \E n \in 1..MaxN :
          /\ heap = [r \in 1..n |-> [id |-> SrcId(r - 1),
                                     timestamp |-> SrcTimestamp(r - 1),
                                     text |-> SrcText(r - 1)]]
          /\ subtitles = [k \in 1..n |-> k]
    /\ input = [k \in DOMAIN subtitles |-> heap[subtitles[k]]]
    /\ context_size \in 1..MaxCtx
    /\ batch_size \in 1..MaxBatch
    /\ translated_subtitles = <<>>
    /\ pc = "Idle"
    /\ batch_start = 0
    /\ idx = 0
    /\ calls = <<>>
    /\ events = <<>>
    /\ returned = <<>>
    /\ COff
    /\ MOff

\* Lines 86-98: the copy and the entry into the first batch.
Start ==
    /\ pc = "Idle"
    /\ translated_subtitles' = copy(subtitles)
    /\ batch_start' = 0
    /\ idx' = 0
    /\ pc' = "Running"
    /\ UNCHANGED <<heap, subtitles, context_size, batch_size, calls, events,
                   returned, input>>
    /\ UNCHANGED <<cvars, mvars>>

\* Lines 98-151: the body of the inner loop for idx, and what follows it.
TranslateItem ==
    /\ pc = "Running"
    /\ LET n == Len(subtitles)
           batch_end == Min(batch_start + batch_size, n)
           current_subtitle == heap[subtitles[idx + 1]].text
           window == ContextRange(idx, batch_start, context_size)
           previous_context == BuildContext(window)
       IN \E outcome \in Outcomes :
            LET t == translate_to_persian(current_subtitle, previous_context, outcome)
            IN /\ heap' = StoreTranslation(heap, translated_subtitles[idx + 1], t.result)
               /\ calls' = Append(calls,
                     [idx |-> idx, batch_start |-> batch_start,
                      text |-> current_subtitle, window |-> window,
                      previous_context |-> previous_context,
                      messages |-> t.messages,
                      raised |-> (outcome.kind = "raise"),
                      result |-> t.result])
               /\ events' = events \o
                     <<[kind |-> "call", at |-> idx, total |-> n],
                       [kind |-> "preview", at |-> idx + 1, total |-> n],
                       [kind |-> "progress", at |-> ProgressDone(idx), total |-> n]>>
               /\ IF idx + 1 < batch_end
                    THEN /\ idx' = idx + 1
                         /\ pc' = "Running"
                         /\ UNCHANGED <<batch_start, returned>>
                    ELSE IF NeedsCooling(batch_end, n)
                    THEN /\ pc' = "Cooling"
                         /\ UNCHANGED <<idx, batch_start, returned>>
                    ELSE /\ pc' = "Done"
                         /\ returned' = DerefNext(translated_subtitles)
                         /\ UNCHANGED <<idx, batch_start>>
    /\ UNCHANGED <<subtitles, translated_subtitles, context_size, batch_size, input>>
    /\ UNCHANGED <<cvars, mvars>>

\* Lines 149-151 and the next turn of the outer loop: the sleep, then the
\* next batch, or the return when range(0, len, batch_size) is exhausted.
Cool ==
    /\ pc = "Cooling"
    /\ events' = Append(events,
          [kind |-> "pause", at |-> Min(batch_start + batch_size, Len(subtitles)),
           total |-> Len(subtitles)])
    /\ IF batch_start + batch_size < Len(subtitles)
         THEN /\ batch_start' = batch_start + batch_size
              /\ idx' = batch_start + batch_size
              /\ pc' = "Running"
              /\ UNCHANGED returned
         ELSE /\ pc' = "Done"
              /\ returned' = [k \in DOMAIN translated_subtitles |->
                                 heap[translated_subtitles[k]]]
              /\ UNCHANGED <<batch_start, idx>>
    /\ UNCHANGED <<heap, subtitles, translated_subtitles, context_size, batch_size,
                   calls, input>>
    /\ UNCHANGED <<cvars, mvars>>

TNext == Start \/ TranslateItem \/ Cool

Spec == TInit /\ [][TNext]_vars

\* The loops are sequential: once every call returns or fails and every sleep
\* ends, the driver always takes its next step.
FairSpec == TInit /\ [][TNext]_vars /\ WF_vars(TNext)

\* ------------------------------------------- claims on translate_subtitles

CeilDiv(n, b) == (n + b - 1) \div b

PauseCount == Cardinality({p \in 1..Len(events) : events[p].kind = "pause"})

\* The calls and progress reports, in the order they happened.
CallsAndProgress == SelectSeq(events, LAMBDA e : e.kind \in {"call", "progress"})

\* C1: in every translation call, the context pair supplied for a preceding
\* index j has `original` equal to the text record j held before the run and
\* `translated` equal to what the client returned for record j in this run.
C1_ContextPairsHoldOriginalAndTranslation ==
    \A c \in 1..Len(calls) :
        \A k \in DOMAIN calls[c].previous_context :
            LET j == calls[c].window[k]
            IN /\ calls[c].previous_context[k].original = input[j + 1].text
               /\ calls[c].previous_context[k].translated = calls[j + 1].result

\* C2: the run keeps the N records in their order, and at every point each
\* record's id and timestamp equal their input values; the list returned has
\* the same N ids and timestamps in the same order.
C2_OnlyTextChanges ==
    /\ Len(subtitles) = Len(input)
    /\ \A k \in DOMAIN subtitles :
          /\ heap[subtitles[k]].id = input[k].id
          /\ heap[subtitles[k]].timestamp = input[k].timestamp
    /\ pc # "Idle" =>
          /\ Len(translated_subtitles) = Len(input)
          /\ \A k \in DOMAIN translated_subtitles :
                /\ heap[translated_subtitles[k]].id = input[k].id
                /\ heap[translated_subtitles[k]].timestamp = input[k].timestamp
    /\ pc = "Done" =>
          /\ Len(returned) = Len(input)
          /\ \A k \in DOMAIN returned :
                /\ returned[k].id = input[k].id
                /\ returned[k].timestamp = input[k].timestamp

C2_Witness ==
    /\ pc = "Done"
    /\ Len(returned) >= 3
    /\ \E k \in DOMAIN returned : returned[k].text # input[k].text

\* C3: when the service raises for item i, item i keeps its original text
\* (also in the list returned), and every later item is still called, once,
\* in order, with its own original text as the text to translate; the failed
\* item enters later contexts with its original text as its translation.
C3_FailureFallsBackAndRunContinues ==
    \A c \in 1..Len(calls) :
        calls[c].raised =>
            LET i == calls[c].idx
            IN /\ calls[c].result = input[i + 1].text
               /\ heap[translated_subtitles[i + 1]].text = input[i + 1].text
               /\ \A m \in (c + 1)..Len(calls) :
                     /\ calls[m].idx = m - 1
                     /\ calls[m].text = input[m].text
                     /\ calls[m].messages[Len(calls[m].messages)]
                           = [role |-> "user", content |-> Wrap(input[m].text)]
                     /\ \A k \in DOMAIN calls[m].window :
                           calls[m].window[k] = i =>
                              calls[m].previous_context[k].translated
                                 = input[i + 1].text
               /\ pc = "Done" =>
                     /\ returned[i + 1].text = input[i + 1].text
                     /\ Len(calls) = Len(input)

C3_Witness ==
    /\ pc = "Done"
    /\ \E c \in 1..Len(calls) :
          /\ calls[c].raised
          /\ c + 1 <= Len(calls)
          /\ ~calls[c + 1].raised
          /\ calls[c + 1].result # calls[c + 1].text
          /\ \E k \in DOMAIN calls[c + 1].window :
                calls[c + 1].window[k] = calls[c].idx

\* C4 as stated: at the first index of a non-first batch the context is
\* exactly the context_size records preceding batch_start, oldest first.
C4_SeamContextHasContextSizeRecords ==
    \A c \in 1..Len(calls) :
        (calls[c].idx = calls[c].batch_start /\ calls[c].batch_start > 0) =>
            /\ Len(calls[c].window) = context_size
            /\ \A k \in DOMAIN calls[c].window :
                  calls[c].window[k] = calls[c].batch_start - context_size + k - 1

\* C4 as amended: at the first index of a non-first batch the context is the
\* min(context_size, batch_start) records immediately preceding batch_start,
\* oldest first, each with its current translation, and it is never empty.
C4_SeamContextIsTailBeforeBatch ==
    \A c \in 1..Len(calls) :
        (calls[c].idx = calls[c].batch_start /\ calls[c].batch_start > 0) =>
            LET w == calls[c].window
                bs == calls[c].batch_start
            IN /\ Len(w) = Min(context_size, bs)
               /\ Len(w) >= 1
               /\ Len(calls[c].previous_context) = Len(w)
               /\ \A k \in DOMAIN w :
                     /\ w[k] = bs - Len(w) + k - 1
                     /\ calls[c].previous_context[k].translated
                           = calls[w[k] + 1].result

C4_Witness ==
    \E c \in 1..Len(calls) :
        /\ calls[c].idx = calls[c].batch_start
        /\ calls[c].batch_start > 0
        /\ context_size >= 2
        /\ Len(calls[c].window) = context_size

\* A seam where fewer than context_size records precede the batch.
C4_ShortSeam ==
    \E c \in 1..Len(calls) :
        /\ calls[c].idx = calls[c].batch_start
        /\ calls[c].batch_start > 0
        /\ calls[c].batch_start < context_size

\* C5: at every other index the context is exactly the indices of
\* [max(batch_start, i - context_size), i) in increasing order: none outside
\* the current batch, none >= i, at most context_size of them.
C5_InBatchContextWindow ==
    \A c \in 1..Len(calls) :
        ~(calls[c].idx = calls[c].batch_start /\ calls[c].batch_start > 0) =>
            LET w == calls[c].window
                i == calls[c].idx
                bs == calls[c].batch_start
                lo == Max(bs, i - context_size)
            IN /\ Len(w) = i - lo
               /\ Len(w) <= context_size
               /\ Len(calls[c].previous_context) = Len(w)
               /\ \A k \in DOMAIN w :
                     /\ w[k] = lo + k - 1
                     /\ bs <= w[k]
                     /\ w[k] < i
                     /\ calls[c].previous_context[k].translated
                           = calls[w[k] + 1].result

\* Index i in a later batch whose window is cut short by the batch start.
C5_Witness ==
    \E c \in 1..Len(calls) :
        /\ calls[c].batch_start > 0
        /\ calls[c].idx > calls[c].batch_start
        /\ calls[c].idx - context_size < calls[c].batch_start
        /\ Len(calls[c].window) >= 1

\* C6: a pause happens exactly once after the last item of every batch but
\* the final one and before the first item of the next batch: never in the
\* middle of a batch, never after the final item; ceil(N/b) - 1 in total.
C6_PausesOnlyBetweenBatches ==
    LET n == Len(input)
        b == batch_size
    IN /\ \A p \in 1..Len(events) :
             events[p].kind = "pause" =>
                /\ events[p].at % b = 0
                /\ 0 < events[p].at
                /\ events[p].at < n
                /\ p > 1
                /\ events[p - 1].kind = "progress"
                /\ events[p - 1].at = events[p].at
                /\ p < Len(events) =>
                      /\ events[p + 1].kind = "call"
                      /\ events[p + 1].at = events[p].at
       /\ \A p \in 1..Len(events) :
             (events[p].kind = "call" /\ events[p].at > 0) =>
                (events[p - 1].kind = "pause" <=> events[p].at % b = 0)
       /\ PauseCount <= CeilDiv(n, b) - 1
       /\ n <= b => PauseCount = 0
       /\ pc = "Done" =>
             /\ PauseCount = CeilDiv(n, b) - 1
             /\ events[Len(events)].kind = "progress"

\* The spec's example: batch_size 2, three items, one pause.
C6_Witness ==
    /\ pc = "Done"
    /\ batch_size = 2
    /\ Len(input) = 3
    /\ PauseCount = 1

\* C10 (the part a finite run decides): calls are made one per index in
\* increasing order, none repeated, also after a failure; the k-th call is
\* followed by the progress report (k, N); at Done there were N calls and the
\* last report is (N, N).
C10_CallsAndProgressInOrder ==
    LET n == Len(input)
        e == CallsAndProgress
    IN /\ Len(calls) <= n
       /\ \A k \in 1..Len(calls) : calls[k].idx = k - 1
       /\ Len(e) = 2 * Len(calls)
       /\ \A k \in 1..Len(calls) :
             /\ e[2 * k - 1] = [kind |-> "call", at |-> k - 1, total |-> n]
             /\ e[2 * k] = [kind |-> "progress", at |-> k, total |-> n]
       /\ pc = "Done" =>
             /\ Len(calls) = n
             /\ events[Len(events)] = [kind |-> "progress", at |-> n, total |-> n]

\* C10: provided every call returns or fails (FairSpec), a run over N records
\* makes exactly N calls, one per index in increasing order, reports (k, N)
\* after the k-th call, and reaches Done with (N, N) as the last report.
C10_RunCompletesInOrder == [](C10_CallsAndProgressInOrder) /\ <>(pc = "Done")

C10_Witness ==
    /\ pc = "Done"
    /\ Len(calls) >= 3
    /\ \E c \in 1..(Len(calls) - 1) : calls[c].raised

\* ------------------------------------------------------------- SRT codec

\* open(path, 'r'): universal newlines turn "\r\n" and a lone "\r" into "\n".
\* (open(path, 'w') writes "\n" as os.linesep, which is "\n" itself on POSIX.)
RECURSIVE read_text(_)
read_text(s) ==
    IF s = <<>> THEN <<>>
    ELSE IF Head(s) = CR
      THEN IF Len(s) >= 2 /\ s[2] = NL
             THEN <<NL>> \o read_text(SubSeq(s, 3, Len(s)))
             ELSE <<NL>> \o read_text(Tail(s))
    ELSE <<Head(s)>> \o read_text(Tail(s))

RECURSIVE DropNewlines(_)
DropNewlines(s) ==
    IF s # <<>> /\ Head(s) = NL THEN DropNewlines(Tail(s)) ELSE s

\* re.split(r'\n\n+', s): cut at every maximal run of two or more newlines.
RECURSIVE re_split_blank(_, _, _)
re_split_blank(s, cur, acc) ==
    IF s = <<>> THEN Append(acc, cur)
    ELSE IF Len(s) >= 2 /\ s[1] = NL /\ s[2] = NL
      THEN re_split_blank(DropNewlines(s), <<>>, Append(acc, cur))
    ELSE re_split_blank(Tail(s), Append(cur, Head(s)), acc)

\* str.split('\n')
RECURSIVE split_nl(_, _, _)
split_nl(s, cur, acc) ==
    IF s = <<>> THEN Append(acc, cur)
    ELSE IF Head(s) = NL THEN split_nl(Tail(s), <<>>, Append(acc, cur))
    ELSE split_nl(Tail(s), Append(cur, Head(s)), acc)

\* '\n'.join(lines)
RECURSIVE join_nl(_)
join_nl(lines) ==
    IF lines = <<>> THEN <<>>
    ELSE IF Len(lines) = 1 THEN lines[1]
    ELSE lines[1] \o <<NL>> \o join_nl(Tail(lines))

\* A plausible bug: two lines are taken for a subtitle.
IsValidBlock_two_lines(lines) == Len(lines) >= 2

\* if len(lines) >= 3
IsValidBlock(lines) == Len(lines) >= 3

\* Lines 23-34: the records (each with the 1-based number of its block) that
\* the loop over the blocks from number k on appends.
RECURSIVE ParseBlocks(_, _)
ParseBlocks(subtitle_blocks, k) ==
    IF k > Len(subtitle_blocks) THEN <<>>
    ELSE LET lines == split_nl(strip(subtitle_blocks[k]), <<>>, <<>>)
         IN (IF IsValidBlock(lines)
               THEN <<[block |-> k,
                       rec |-> [id |-> lines[1],
                                timestamp |-> lines[2],
                                text |-> join_nl(SubSeq(lines, 3, Len(lines)))]]>>
               ELSE <<>>)
            \o ParseBlocks(subtitle_blocks, k + 1)

\* Line 20
SubtitleBlocks(text) == re_split_blank(strip(text), <<>>, <<>>)

\* parse_srt, given the bytes of the file at file_path.
parse_srt(bytes) ==
    LET parsed == ParseBlocks(SubtitleBlocks(read_text(bytes)), 1)
    IN [k \in DOMAIN parsed |-> parsed[k].rec]

\* A plausible bug: the blank line between two records is not written.
RECURSIVE write_srt_no_separator(_)
write_srt_no_separator(subs) ==
    IF subs = <<>> THEN <<>>
    ELSE Head(subs).id \o <<NL>> \o Head(subs).timestamp \o <<NL>>
           \o Head(subs).text \o <<NL>> \o write_srt_no_separator(Tail(subs))

\* write_srt: the bytes written to output_path.
RECURSIVE write_srt(_)
write_srt(subs) ==
    IF subs = <<>> THEN <<>>
    ELSE LET last == subs[Len(subs)]
         IN write_srt(SubSeq(subs, 1, Len(subs) - 1))
              \o (IF Len(subs) > 1 THEN <<NL>> ELSE <<>>)
              \o last.id \o <<NL>> \o last.timestamp \o <<NL>> \o last.text \o <<NL>>

\* The lines an uploaded file is made of: an empty line, a whitespace-only
\* line, a plain line, a line with a trailing blank.
LineSet == {<<>>, <<SP>>, <<"a">>, <<"b", SP>>}

CInit ==
    /\ content = <<>>
    /\ typed = 0
    /\ cpc = "typing"
    /\ yielded = <<>>
    /\ file_out = <<>>
    /\ reparsed = <<>>
    /\ heap = <<>>
    /\ subtitles = <<>>
    /\ input = <<>>
    /\ translated_subtitles = <<>>
    /\ context_size = DefaultContextSize
    /\ batch_size = MinBatchSize
    /\ pc = "NotCalled"
    /\ batch_start = 0
    /\ idx = 0
    /\ calls = <<>>
    /\ events = <<>>
    /\ returned = <<>>
    /\ MOff

\* The user's file grows by one line.
TypeLine ==
    /\ cpc = "typing"
    /\ typed < MaxLines
    /\ \E line \in LineSet : content' = content \o line \o <<NL>>
    /\ typed' = typed + 1
    /\ UNCHANGED <<cpc, yielded, file_out, reparsed>>
    /\ UNCHANGED <<tvars, mvars>>

\* main, lines 308-316: the file is parsed; no records stop the script,
\* otherwise the records go to translate_subtitles.
Parse ==
    /\ cpc = "typing"
    /\ LET parsed == ParseBlocks(SubtitleBlocks(read_text(content)), 1)
           recs == parse_srt(content)
       IN /\ yielded' = [k \in DOMAIN parsed |-> parsed[k].block]
          /\ heap' = recs
          /\ subtitles' = [k \in DOMAIN recs |-> k]
          /\ input' = recs
          /\ cpc' = IF recs = <<>> THEN "stopped" ELSE "parsed"
          /\ pc' = IF recs = <<>> THEN pc ELSE "Idle"
    /\ UNCHANGED <<content, typed, file_out, reparsed>>
    /\ UNCHANGED <<translated_subtitles, context_size, batch_size, batch_start, idx,
                   calls, events, returned>>
    /\ UNCHANGED mvars

\* main, line 343: the translated records are written.
WriteOut ==
    /\ cpc = "parsed"
    /\ pc = "Done"
    /\ file_out' = write_srt(returned)
    /\ cpc' = "written"
    /\ UNCHANGED <<content, typed, yielded, reparsed>>
    /\ UNCHANGED <<tvars, mvars>>

\* The written file is parsed again.
Reparse ==
    /\ cpc = "written"
    /\ reparsed' = parse_srt(file_out)
    /\ cpc' = "reparsed"
    /\ UNCHANGED <<content, typed, yielded, file_out>>
    /\ UNCHANGED <<tvars, mvars>>

CNext == TypeLine \/ Parse \/ Start \/ TranslateItem \/ Cool \/ WriteOut \/ Reparse

CodecSpec == CInit /\ [][CNext]_vars

\* ------------------------------------------------------ claims on the codec

\* The number of newlines in s.
CountNL(s) == Cardinality({p \in 1..Len(s) : s[p] = NL})

\* The lines of a block that are not empty once each is trimmed.
TrimmedNonEmptyLines(block) ==
    LET lines == split_nl(block, <<>>, <<>>)
    IN Cardinality({k \in DOMAIN lines : strip(lines[k]) # <<>>})

Increasing(seq) == \A k \in 1..(Len(seq) - 1) : seq[k] < seq[k + 1]

NoBlankLine(text) ==
    ~\E p \in 1..(Len(text) - 1) : text[p] = NL /\ text[p + 1] = NL

NoCarriageReturn(text) == ~\E p \in 1..Len(text) : text[p] = CR

\* C8 as stated: when no text holds a blank line, parsing the file write_srt
\* produced gives back the same records.
C8_RoundTripWithoutBlankLines ==
    cpc = "reparsed" =>
        ((\A k \in DOMAIN returned : NoBlankLine(returned[k].text))
            => reparsed = returned)

\* C8 as amended: for the record lists the program writes, when no text is
\* empty, holds a blank line or holds a carriage return, parsing the file
\* write_srt produced gives back the same records, in the same order.
C8_RoundTripOfWellFormedTexts ==
    cpc = "reparsed" =>
        ((\A k \in DOMAIN returned :
              /\ returned[k].text # <<>>
              /\ NoBlankLine(returned[k].text)
              /\ NoCarriageReturn(returned[k].text))
            => /\ Len(reparsed) = Len(returned)
               /\ \A k \in DOMAIN returned :
                     /\ reparsed[k].id = returned[k].id
                     /\ reparsed[k].timestamp = returned[k].timestamp
                     /\ reparsed[k].text = returned[k].text)

\* Two records, one of them translated to two lines, written and read back.
C8_Witness ==
    /\ cpc = "reparsed"
    /\ Len(returned) = 2
    /\ returned[1].text = <<"x", NL, "y">>
    /\ returned[2].text = input[2].text
    /\ reparsed = returned

\* C9 as stated: a record is yielded only for a block with at least 3 lines
\* that are non-empty after trimming each line; the blocks kept are in order.
C9_RecordsOnlyFromThreeNonEmptyLines ==
    cpc \in {"parsed", "stopped"} =>
        LET blocks == SubtitleBlocks(read_text(content))
        IN /\ Increasing(yielded)
           /\ \A m \in DOMAIN yielded :
                 TrimmedNonEmptyLines(blocks[yielded[m]]) >= 3

\* C9 as amended: a record is yielded for exactly the blocks that, trimmed as
\* a whole, have at least 3 lines (a whitespace-only line inside the block
\* counts); every other block is absent, and the records are the kept blocks
\* in input order.
C9_RecordsFromBlocksOfThreeLines ==
    cpc \in {"parsed", "stopped"} =>
        LET blocks == SubtitleBlocks(read_text(content))
        IN /\ Increasing(yielded)
           /\ {yielded[m] : m \in DOMAIN yielded}
                 = {k \in DOMAIN blocks : CountNL(strip(blocks[k])) >= 2}
           /\ Len(input) = Len(yielded)
           /\ \A m \in DOMAIN yielded :
                 input[m].id \o <<NL>> \o input[m].timestamp \o <<NL>> \o input[m].text
                    = strip(blocks[yielded[m]])

\* A file whose first block is too short and whose second block is kept.
C9_Witness ==
    /\ cpc = "parsed"
    /\ Len(SubtitleBlocks(read_text(content))) = 2
    /\ yielded = <<2>>

\* A block kept although only two of its lines are non-empty when trimmed.
C9_WhitespaceLineCounted ==
    /\ cpc = "parsed"
    /\ \E m \in DOMAIN yielded :
          TrimmedNonEmptyLines(SubtitleBlocks(read_text(content))[yielded[m]]) < 3

\* ------------------------------------------------------------------ main

\* temp_path.replace('.srt', '.fa.srt'), on a NamedTemporaryFile name, whose
\* only ".srt" is its suffix.
ReplaceSuffix(path) ==
    IF path.suffix = ".srt" THEN [path EXCEPT !.suffix = ".fa.srt"] ELSE path

\* tempfile.NamedTemporaryFile(delete=False, suffix='.srt'): a fresh name.
NewTempPath(n) == [stem |-> n + 1, suffix |-> ".srt"]

\* Lines 370-375: the except branch removes the temporary input only.
HandleException(fs, tp) == IF tp \in fs THEN fs \ {tp} ELSE fs

MInit ==
    /\ mpc = "Waiting"
    /\ files = {}
    /\ temp_path = NoPath
    /\ output_path = NoPath
    /\ names_used = 0
    /\ runs = 0
    /\ created = {}
    /\ ended = "none"
    /\ heap = <<>>
    /\ subtitles = <<>>
    /\ input = <<>>
    /\ translated_subtitles = <<>>
    /\ context_size = DefaultContextSize
    /\ batch_size = MinBatchSize
    /\ pc = "NotCalled"
    /\ batch_start = 0
    /\ idx = 0
    /\ calls = <<>>
    /\ events = <<>>
    /\ returned = <<>>
    /\ COff

\* Lines 274-280: a script run with a file uploaded saves it for the preview.
PreviewOpen ==
    /\ mpc = "Waiting"
    /\ runs < MaxRuns
    /\ runs' = runs + 1
    /\ temp_path' = NewTempPath(names_used)
    /\ names_used' = names_used + 1
    /\ files' = files \cup {NewTempPath(names_used)}
    /\ created' = {NewTempPath(names_used)}
    /\ output_path' = NoPath
    /\ mpc' = "Preview"
    /\ ended' = "none"
    /\ UNCHANGED <<tvars, cvars>>

\* Lines 283-292: the preview parses (or fails to), and unlinks in finally.
PreviewClose ==
    /\ mpc = "Preview"
    /\ \E outcome \in {"ok", "raise"} :
          files' = IF temp_path \in files THEN files \ {temp_path} ELSE files
    /\ mpc' = "Button"
    /\ UNCHANGED <<temp_path, output_path, names_used, runs, created, ended>>
    /\ UNCHANGED <<tvars, cvars>>

\* Lines 296-298: the button was not pressed in this script run.
NoClick ==
    /\ mpc = "Button"
    /\ mpc' = "Waiting"
    /\ ended' = "no_click"
    /\ UNCHANGED <<files, temp_path, output_path, names_used, runs, created>>
    /\ UNCHANGED <<tvars, cvars>>

\* Lines 298-302: the button was pressed; the upload is saved again.
ClickTranslate ==
    /\ mpc = "Button"
    /\ temp_path' = NewTempPath(names_used)
    /\ names_used' = names_used + 1
    /\ files' = files \cup {NewTempPath(names_used)}
    /\ created' = created \cup {NewTempPath(names_used)}
    /\ mpc' = "Parse"
    /\ UNCHANGED <<output_path, runs, ended>>
    /\ UNCHANGED <<tvars, cvars>>

\* Lines 308-319: parse_srt raises, finds nothing (unlink, st.stop()), or
\* finds records, and then the output path is made.
ParseStep ==
    /\ mpc = "Parse"
    /\ \E outcome \in {"raise", "empty", "records"} :
          CASE outcome = "raise" ->
                 /\ files' = HandleException(files, temp_path)
                 /\ mpc' = "Waiting"
                 /\ ended' = "error_parse"
                 /\ UNCHANGED output_path
            [] outcome = "empty" ->
                 /\ files' = IF temp_path \in files THEN files \ {temp_path} ELSE files
                 /\ mpc' = "Waiting"
                 /\ ended' = "early_exit"
                 /\ UNCHANGED output_path
            [] outcome = "records" ->
                 /\ output_path' = ReplaceSuffix(temp_path)
                 /\ mpc' = "Translate"
                 /\ UNCHANGED <<files, ended>>
    /\ UNCHANGED <<temp_path, names_used, runs, created>>
    /\ UNCHANGED <<tvars, cvars>>

\* Lines 326-339: translate_subtitles returns, or a call in it raises.
TranslateStep ==
    /\ mpc = "Translate"
    /\ \E outcome \in {"raise", "ok"} :
          IF outcome = "raise"
            THEN /\ files' = HandleException(files, temp_path)
                 /\ mpc' = "Waiting"
                 /\ ended' = "error_translate"
            ELSE /\ mpc' = "Write"
                 /\ UNCHANGED <<files, ended>>
    /\ UNCHANGED <<temp_path, output_path, names_used, runs, created>>
    /\ UNCHANGED <<tvars, cvars>>

\* Lines 342-343: write_srt opens the output for writing, which creates it;
\* the open can fail, and a write can fail after the open.
WriteStep ==
    /\ mpc = "Write"
    /\ \E outcome \in {"raise_open", "raise_write", "ok"} :
          CASE outcome = "raise_open" ->
                 /\ files' = HandleException(files, temp_path)
                 /\ mpc' = "Waiting"
                 /\ ended' = "error_open"
                 /\ UNCHANGED created
            [] outcome = "raise_write" ->
                 /\ files' = HandleException(files \cup {output_path}, temp_path)
                 /\ created' = created \cup {output_path}
                 /\ mpc' = "Waiting"
                 /\ ended' = "error_write"
            [] outcome = "ok" ->
                 /\ files' = files \cup {output_path}
                 /\ created' = created \cup {output_path}
                 /\ mpc' = "ReadBack"
                 /\ UNCHANGED ended
    /\ UNCHANGED <<temp_path, output_path, names_used, runs>>
    /\ UNCHANGED <<tvars, cvars>>

\* Lines 346-347: the output is read for the download.
ReadBackStep ==
    /\ mpc = "ReadBack"
    /\ \E outcome \in {"raise", "ok"} :
          IF outcome = "raise"
            THEN /\ files' = HandleException(files, temp_path)
                 /\ mpc' = "Waiting"
                 /\ ended' = "error_read_back"
            ELSE /\ mpc' = "Download"
                 /\ UNCHANGED <<files, ended>>
    /\ UNCHANGED <<temp_path, output_path, names_used, runs, created>>
    /\ UNCHANGED <<tvars, cvars>>

\* Lines 350-368: the download button is shown, then both files are unlinked.
DownloadStep ==
    /\ mpc = "Download"
    /\ \E outcome \in {"raise", "ok"} :
          IF outcome = "raise"
            THEN /\ files' = HandleException(files, temp_path)
                 /\ ended' = "error_download"
            ELSE /\ files' = (files \ {temp_path}) \ {output_path}
                 /\ ended' = "success"
    /\ mpc' = "Waiting"
    /\ UNCHANGED <<temp_path, output_path, names_used, runs, created>>
    /\ UNCHANGED <<tvars, cvars>>

MNext ==
    \/ PreviewOpen
    \/ PreviewClose
    \/ NoClick
    \/ ClickTranslate
    \/ ParseStep
    \/ TranslateStep
    \/ WriteStep
    \/ ReadBackStep
    \/ DownloadStep

MainSpec == MInit /\ [][MNext]_vars

\* C7: whenever a run started from the translate button has ended (success,
\* an exception at any step, or the empty-parse exit), no temporary file that
\* run created is left on disk.
C7_NoTemporaryFileRemains ==
    (mpc = "Waiting" /\ ended \notin {"none", "no_click"}) => created \cap files = {}

====
